---- MODULE Spec2Model ----
(***************************************************************************)
(* Task-Manager-CLI (src/main.py): the task store kept in one JSON file,   *)
(* and the handlers add_task, list_tasks, update_task, delete_task and     *)
(* view_task that load it, show it, change it and save it.                 *)
(*                                                                         *)
(* Python values: a str is a TLA+ string, a list is a sequence, a dict is  *)
(* a record, None is the constant None below.                              *)
(***************************************************************************)
EXTENDS Integers, Sequences, FiniteSets, TLC

VARIABLES
    file,     \* the storage file tasks_file: absent, a JSON list, or unparseable
    ret,      \* what the last handler call returned
    out,      \* what the last handler call printed (the kinds of message)
    shown,    \* the tasks in the table the last handler call printed, in order
    inv,      \* per process: the invocation it is in the middle of, if any
    call,     \* history: the last handler call, its name and arguments
    prev,     \* history: the storage file as the last handler call found it
    over,     \* history: the storage file as the last save_tasks call found it
    issued,   \* history: the ids the add_task calls have returned, in order
    calls     \* history: how many handler calls have been made

vars == <<file, ret, out, shown, inv, call, prev, over, issued, calls>>

-----------------------------------------------------------------------------
(* Bounds of the model *)

MaxCalls == 3      \* handler calls per behaviour
MaxLen   == 4      \* tasks in a store that list_tasks is called on

-----------------------------------------------------------------------------
(* Constants of the program *)

None == "None"     \* Python's None; no str of the model's inputs equals it

\* None where a list is expected (tags=None): a sequence no tag list equals
NoneList == <<None>>

PRIORITIES == <<"low", "medium", "high", "critical">>
STATUSES   == <<"pending", "in_progress", "completed", "cancelled">>

Range(s) == {s[i] : i \in 1..Len(s)}

\* str.lower() on the strings the model passes: the ones holding an upper-case
\* letter are listed, every other one is already lower-case.
lower(s) ==
    CASE s = "HIGH"        -> "high"
      [] s = "Critical"    -> "critical"
      [] s = "COMPLETED"   -> "completed"
      [] s = "In_Progress" -> "in_progress"
      [] s = "Home"        -> "home"
      [] s = "HOME"        -> "home"
      [] s = "X"           -> "x"
      [] OTHER             -> s

\* datetime.now().strftime("%Y-%m-%d %H:%M:%S") at the n-th instant
strftime(n) ==
    CASE n = 1 -> "2026-11-03 09:00:00"
      [] n = 2 -> "2026-11-03 09:00:01"
      [] n = 3 -> "2026-11-03 10:30:00"
      [] n = 4 -> "2026-11-04 08:15:30"
      [] n = 5 -> "2026-12-01 00:00:00"
      [] OTHER -> "2027-01-01 12:00:00"

-----------------------------------------------------------------------------
(* The inputs the handlers are called with *)

\* str(uuid.uuid4())[:8]: eight hex digits of a random UUID
Ids == {"1a2b3c4d", "abc123de"}

\* add_task(title, description, priority, due_date, tags)
AddCalls ==
    { [title |-> "Buy milk", description |-> "", priority |-> "high",
       due_date |-> None, tags |-> NoneList],
      [title |-> "X", description |-> "", priority |-> "urgent",
       due_date |-> None, tags |-> <<>>],
      [title |-> "X", description |-> "2 litres", priority |-> "Critical",
       due_date |-> "2026-01-01", tags |-> <<"Home", "x">>] }

PriorityArgs == {"HIGH", "urgent"}
StatusArgs   == {"pending", "In_Progress", "completed", "cancelled", "bogus"}

\* update_task(task_id, title, description, priority, status, due_date, tags):
\* every argument left out (None) or given
AllUpdateCalls ==
    [title       : {None, "X"},
     description : {None, ""},
     priority    : {None} \cup PriorityArgs,
     status      : {None} \cup StatusArgs,
     due_date    : {None, "2026-12-31"},
     tags        : {NoneList, <<>>}]

Given(c) ==
    {f \in {"title", "description", "priority", "status", "due_date"} :
        c[f] # None}
    \cup (IF c.tags # NoneList THEN {"tags"} ELSE {})

\* the calls made: no field given, one field given, or all six given
UpdateCalls == {c \in AllUpdateCalls : Cardinality(Given(c)) \in {0, 1, 6}}

\* list_tasks(status, priority, tag, sort_by): a filter is left out (None),
\* empty, valid in some case, or invalid
AllListCalls ==
    [status   : {None, "", "pending", "COMPLETED", "bogus"},
     priority : {None, "", "Critical", "urgent"},
     tag      : {None, "", "HOME", "x"},
     sort_by  : {"created_at", "due_date", "priority", "title"}]

Filters(c) == {f \in {"status", "priority", "tag"} : c[f] # None}

\* the calls made between the other handlers' calls: at most one filter with
\* the default sort key, or no filter with any sort key
ListCalls ==
    {c \in AllListCalls :
        \/ Cardinality(Filters(c)) <= 1 /\ c.sort_by = "created_at"
        \/ Filters(c) = {}}

\* the update_task and list_tasks calls made where save_tasks is followed step
\* by step: an update that gives no field, one that gives all six, and a
\* list without filters
SaveUpdateCalls ==
    {c \in UpdateCalls :
        \/ Given(c) = {}
        \/ Cardinality(Given(c)) = 6
            /\ c.priority = "urgent" /\ c.status = "completed"}

SaveListCalls ==
    {c \in ListCalls : Filters(c) = {} /\ c.sort_by = "created_at"}

\* the instant a handler call runs at: one instant passes per call
now == calls + 1

\* the processes invoking the program
Procs == {"p1", "p2"}
Idle  == [pc |-> "idle"]

-----------------------------------------------------------------------------
(* The storage file *)

\* JSON text, as the values it denotes: null, a string, an array (a sequence),
\* an object (a record)
json_null      == <<"null">>
json_string(s) == <<"string", s>>

\* json.dump of a str or None
dump_str(v) == IF v = None THEN json_null ELSE json_string(v)

\* json.dump of a task dict
dump_task(t) ==
    [id           |-> dump_str(t.id),
     title        |-> dump_str(t.title),
     description  |-> dump_str(t.description),
     priority     |-> dump_str(t.priority),
     status       |-> dump_str(t.status),
     created_at   |-> dump_str(t.created_at),
     due_date     |-> dump_str(t.due_date),
     completed_at |-> dump_str(t.completed_at),
     tags         |-> [i \in 1..Len(t.tags) |-> dump_str(t.tags[i])]]

\* json.dump(tasks, f, indent=4)
json_dump(tasks) == [i \in 1..Len(tasks) |-> dump_task(tasks[i])]

\* fault: null is read as the empty string
load_str_null_as_empty(j) == IF j[1] = "null" THEN "" ELSE j[2]

\* json.load of a string or null
load_str(j) == IF j[1] = "null" THEN None ELSE j[2]

\* json.load of an object
load_task(o) ==
    [id           |-> load_str(o.id),
     title        |-> load_str(o.title),
     description  |-> load_str(o.description),
     priority     |-> load_str(o.priority),
     status       |-> load_str(o.status),
     created_at   |-> load_str(o.created_at),
     due_date     |-> load_str(o.due_date),
     completed_at |-> load_str(o.completed_at),
     tags         |-> [i \in 1..Len(o.tags) |-> load_str(o.tags[i])]]

\* json.load(f)
json_load(text) == [i \in 1..Len(text) |-> load_task(text[i])]

Absent      == [kind |-> "absent", tasks |-> <<>>]
\* a file holding the JSON text of the list t
JsonFile(t) == [kind |-> "json", tasks |-> json_dump(t)]
\* a file opened for writing and not closed: the records of t written so far
Partial(t)  == [kind |-> "partial", tasks |-> json_dump(t)]

\* fault: the records that can be read from an unparseable file are returned
load_tasks_recovers(f) ==
    IF f.kind # "absent" THEN json_load(f.tasks) ELSE <<>>

\* load_tasks: the list in the file; [] when the file is absent or unparseable
load_tasks(f) ==
    IF f.kind # "absent"
    THEN IF f.kind = "json" THEN json_load(f.tasks) ELSE <<>>
    ELSE <<>>

\* fault: except json.JSONDecodeError returns [] without a message
load_prints_silent(f) == <<>>

\* load_tasks prints an error when the file exists and json.load raises
load_prints(f) ==
    IF f.kind # "absent" /\ f.kind # "json" THEN <<"corrupted">> ELSE <<>>

\* save_tasks, run to completion: the file holds the whole list
save_tasks(tasks) == JsonFile(tasks)

\* the index of the first task with this id, 0 when there is none
\* (for task in tasks: if task["id"] == task_id)
find(tasks, task_id) ==
    IF \E i \in 1..Len(tasks) : tasks[i].id = task_id
    THEN CHOOSE i \in 1..Len(tasks) :
            /\ tasks[i].id = task_id
            /\ \A j \in 1..(i - 1) : tasks[j].id # task_id
    ELSE 0

-----------------------------------------------------------------------------
(* add_task *)

add_priority(priority) ==
    IF lower(priority) \notin Range(PRIORITIES) THEN "medium" ELSE priority

add_prints(priority) ==
    IF lower(priority) \notin Range(PRIORITIES)
    THEN <<"invalid_priority">> ELSE <<>>

new_task(c, uuid, t) ==
    [id           |-> uuid,
     title        |-> c.title,
     description  |-> c.description,
     priority     |-> lower(add_priority(c.priority)),
     status       |-> "pending",
     created_at   |-> strftime(t),
     due_date     |-> c.due_date,
     completed_at |-> None,
     tags         |-> IF c.tags = NoneList \/ c.tags = <<>> THEN <<>> ELSE c.tags]

\* fault: tasks.insert(0, task) for tasks.append(task)
add_result_prepends(tasks, c, uuid, t) == <<new_task(c, uuid, t)>> \o tasks

add_result(tasks, c, uuid, t) == Append(tasks, new_task(c, uuid, t))

add_task(c, uuid) ==
    /\ calls < MaxCalls
    /\ file' = save_tasks(add_result(load_tasks(file), c, uuid, now))
    /\ ret' = uuid
    /\ out' = load_prints(file) \o add_prints(c.priority) \o <<"added">>
    /\ call' = [op |-> "add", id |-> uuid, args |-> c]
    /\ prev' = file
    /\ over' = file
    /\ issued' = Append(issued, uuid)
    /\ calls' = calls + 1
    /\ shown' = <<>>
    /\ UNCHANGED inv

-----------------------------------------------------------------------------
(* update_task *)

update_title(task, title) ==
    IF title # None THEN [task EXCEPT !.title = title] ELSE task

update_description(task, description) ==
    IF description # None THEN [task EXCEPT !.description = description]
    ELSE task

\* fault: the priority is stored without the check against PRIORITIES
update_priority_unchecked(task, priority) ==
    IF priority # None THEN [task EXCEPT !.priority = lower(priority)] ELSE task

update_priority(task, priority) ==
    IF priority # None
    THEN IF lower(priority) \notin Range(PRIORITIES)
         THEN task
         ELSE [task EXCEPT !.priority = lower(priority)]
    ELSE task

\* fault: the elif that clears completed_at is missing
update_status_keeps_stamp(task, status, t) ==
    IF status # None
    THEN IF lower(status) \notin Range(STATUSES)
         THEN task
         ELSE LET old_status == task.status
                  set == [task EXCEPT !.status = lower(status)]
              IN  IF set.status = "completed" /\ old_status # "completed"
                  THEN [set EXCEPT !.completed_at = strftime(t)]
                  ELSE set
    ELSE task

\* fault: completed_at is stamped only when the task was pending
update_status_from_pending(task, status, t) ==
    IF status # None
    THEN IF lower(status) \notin Range(STATUSES)
         THEN task
         ELSE LET old_status == task.status
                  set == [task EXCEPT !.status = lower(status)]
              IN  IF set.status = "completed" /\ old_status = "pending"
                  THEN [set EXCEPT !.completed_at = strftime(t)]
                  ELSE IF set.status # "completed"
                       THEN [set EXCEPT !.completed_at = None]
                       ELSE set
    ELSE task

\* fault: completed_at is stamped whenever the new status is completed
update_status_restamps(task, status, t) ==
    IF status # None
    THEN IF lower(status) \notin Range(STATUSES)
         THEN task
         ELSE LET set == [task EXCEPT !.status = lower(status)]
              IN  IF set.status = "completed"
                  THEN [set EXCEPT !.completed_at = strftime(t)]
                  ELSE [set EXCEPT !.completed_at = None]
    ELSE task

update_status(task, status, t) ==
    IF status # None
    THEN IF lower(status) \notin Range(STATUSES)
         THEN task
         ELSE LET old_status == task.status
                  set == [task EXCEPT !.status = lower(status)]
              IN  IF set.status = "completed" /\ old_status # "completed"
                  THEN [set EXCEPT !.completed_at = strftime(t)]
                  ELSE IF set.status # "completed"
                       THEN [set EXCEPT !.completed_at = None]
                       ELSE set
    ELSE task

\* fault: the test for None is missing
update_due_date_always(task, due_date) == [task EXCEPT !.due_date = due_date]

update_due_date(task, due_date) ==
    IF due_date # None THEN [task EXCEPT !.due_date = due_date] ELSE task

update_tags(task, tags) ==
    IF tags # NoneList THEN [task EXCEPT !.tags = tags] ELSE task

\* fault: an invalid priority or status ends the update of the task
update_fields_all_or_none(task, c, t) ==
    IF \/ (c.priority # None /\ lower(c.priority) \notin Range(PRIORITIES))
       \/ (c.status # None /\ lower(c.status) \notin Range(STATUSES))
    THEN task
    ELSE update_tags(
           update_due_date(
             update_status(
               update_priority(
                 update_description(
                   update_title(task, c.title),
                   c.description),
                 c.priority),
               c.status, t),
             c.due_date),
           c.tags)

\* the body of the loop for the task found, lines 139-168
update_fields(task, c, t) ==
    update_tags(
      update_due_date(
        update_status(
          update_priority(
            update_description(
              update_title(task, c.title),
              c.description),
            c.priority),
          c.status, t),
        c.due_date),
      c.tags)

update_prints(c) ==
    (IF c.priority # None /\ lower(c.priority) \notin Range(PRIORITIES)
     THEN <<"invalid_priority">> ELSE <<>>)
    \o (IF c.status # None /\ lower(c.status) \notin Range(STATUSES)
        THEN <<"invalid_status">> ELSE <<>>)

update_result(tasks, task_id, c, t) ==
    [tasks EXCEPT ![find(tasks, task_id)] = update_fields(@, c, t)]

\* fault: save_tasks is called after the loop, found or not
update_file_always_saves(f, task_id, c, t) ==
    IF find(load_tasks(f), task_id) # 0
    THEN save_tasks(update_result(load_tasks(f), task_id, c, t))
    ELSE save_tasks(load_tasks(f))

\* the file after update_task: saved when the task is found, left alone when not
update_file(f, task_id, c, t) ==
    IF find(load_tasks(f), task_id) # 0
    THEN save_tasks(update_result(load_tasks(f), task_id, c, t))
    ELSE f

update_task(task_id, c) ==
    LET found == find(load_tasks(file), task_id) # 0 IN
    /\ calls < MaxCalls
    /\ file' = update_file(file, task_id, c, now)
    /\ ret' = found
    /\ call' = [op |-> "update", id |-> task_id, args |-> c]
    /\ prev' = file
    /\ over' = IF found THEN file ELSE over
    /\ out' = load_prints(file) \o
              (IF found THEN update_prints(c) \o <<"updated">>
               ELSE <<"not_found">>)
    /\ calls' = calls + 1
    /\ shown' = <<>>
    /\ UNCHANGED <<issued, inv>>

-----------------------------------------------------------------------------
(* delete_task *)

\* tasks.pop(i)
pop(tasks, i) == SubSeq(tasks, 1, i - 1) \o SubSeq(tasks, i + 1, Len(tasks))

delete_result(tasks, task_id) == pop(tasks, find(tasks, task_id))

delete_file(f, task_id) ==
    IF find(load_tasks(f), task_id) # 0
    THEN save_tasks(delete_result(load_tasks(f), task_id))
    ELSE f

delete_task(task_id) ==
    LET found == find(load_tasks(file), task_id) # 0 IN
    /\ calls < MaxCalls
    /\ file' = delete_file(file, task_id)
    /\ ret' = found
    /\ call' = [op |-> "delete", id |-> task_id, args |-> <<>>]
    /\ prev' = file
    /\ over' = IF found THEN file ELSE over
    /\ out' = load_prints(file) \o
              (IF found THEN <<"deleted">> ELSE <<"not_found">>)
    /\ calls' = calls + 1
    /\ shown' = <<>>
    /\ UNCHANGED <<issued, inv>>

-----------------------------------------------------------------------------
(* view_task *)

view_result(tasks, task_id) == find(tasks, task_id) # 0

view_task(task_id) ==
    LET found == view_result(load_tasks(file), task_id) IN
    /\ calls < MaxCalls
    /\ ret' = found
    /\ call' = [op |-> "view", id |-> task_id, args |-> <<>>]
    /\ prev' = file
    /\ out' = load_prints(file) \o
              (IF found THEN <<"task">> ELSE <<"not_found">>)
    /\ calls' = calls + 1
    /\ shown' = <<>>
    /\ UNCHANGED <<file, over, issued, inv>>

-----------------------------------------------------------------------------
(* list_tasks *)

\* if status: / if priority: / if tag: a filter that is None or "" is skipped
truthy(x) == x # None /\ x # ""

\* the code points of the strings list_tasks sorts by
chars(s) ==
    CASE s = ""                      -> <<>>
      [] s = "2026-11-03 09:00:00"  -> <<50, 48, 50, 54, 45, 49, 49, 45, 48, 51, 32, 48, 57, 58, 48, 48, 58, 48, 48>>
      [] s = "2026-11-03 09:00:01"  -> <<50, 48, 50, 54, 45, 49, 49, 45, 48, 51, 32, 48, 57, 58, 48, 48, 58, 48, 49>>
      [] s = "2026-11-03 10:30:00"  -> <<50, 48, 50, 54, 45, 49, 49, 45, 48, 51, 32, 49, 48, 58, 51, 48, 58, 48, 48>>
      [] s = "2026-11-04 08:15:30"  -> <<50, 48, 50, 54, 45, 49, 49, 45, 48, 52, 32, 48, 56, 58, 49, 53, 58, 51, 48>>
      [] s = "2026-12-01 00:00:00"  -> <<50, 48, 50, 54, 45, 49, 50, 45, 48, 49, 32, 48, 48, 58, 48, 48, 58, 48, 48>>
      [] s = "2027-01-01 12:00:00"  -> <<50, 48, 50, 55, 45, 48, 49, 45, 48, 49, 32, 49, 50, 58, 48, 48, 58, 48, 48>>
      [] s = "2026-01-01"           -> <<50, 48, 50, 54, 45, 48, 49, 45, 48, 49>>
      [] s = "2026-12-31"           -> <<50, 48, 50, 54, 45, 49, 50, 45, 51, 49>>
      [] s = "2026-1-5"             -> <<50, 48, 50, 54, 45, 49, 45, 53>>

\* a < b for two str: the first differing code point decides, a proper prefix
\* is smaller
str_lt(a, b) ==
    LET x == chars(a)  y == chars(b) IN
    \E k \in 1..Len(y) :
        /\ \A i \in 1..(k - 1) : i <= Len(x) /\ x[i] = y[i]
        /\ (k > Len(x) \/ (k <= Len(x) /\ x[k] < y[k]))

\* priority_order.get(x["priority"], 0)
priority_order(p) ==
    IF \E i \in 1..Len(PRIORITIES) : PRIORITIES[i] = p
    THEN (CHOOSE i \in 1..Len(PRIORITIES) : PRIORITIES[i] = p) - 1
    ELSE 0

\* x[sort_by] if x[sort_by] is not None else ""
str_key(task, sort_by) == IF task[sort_by] # None THEN task[sort_by] ELSE ""

\* key(a) < key(b) for the key of this sort
key_lt(a, b, sort_by) ==
    IF sort_by = "priority"
    THEN priority_order(a.priority) < priority_order(b.priority)
    ELSE str_lt(str_key(a, sort_by), str_key(b, sort_by))

Reverse(s) == [i \in 1..Len(s) |-> s[Len(s) + 1 - i]]

\* x put into the sorted list s behind every element whose key is not greater
insert(s, x, sort_by) ==
    LET n == Cardinality({i \in 1..Len(s) : ~key_lt(x, s[i], sort_by)})
    IN  SubSeq(s, 1, n) \o <<x>> \o SubSeq(s, n + 1, Len(s))

\* list.sort: ascending by key, elements of equal key in their input order
RECURSIVE stable_sort(_, _)
stable_sort(s, sort_by) ==
    IF s = <<>> THEN <<>>
    ELSE insert(stable_sort(SubSeq(s, 1, Len(s) - 1), sort_by), s[Len(s)], sort_by)

\* fault: reverse=True done as sorting ascending and reversing the result
sorted_then_reversed(tasks, sort_by, reverse) ==
    IF reverse
    THEN Reverse(stable_sort(tasks, sort_by))
    ELSE stable_sort(tasks, sort_by)

\* sorted(tasks, key=..., reverse=...): with reverse the list is reversed,
\* sorted and reversed again
sorted(tasks, sort_by, reverse) ==
    IF reverse
    THEN Reverse(stable_sort(Reverse(tasks), sort_by))
    ELSE stable_sort(tasks, sort_by)

filter_status(tasks, status) ==
    IF truthy(status)
    THEN SelectSeq(tasks, LAMBDA t : t.status = lower(status))
    ELSE tasks

filter_priority(tasks, priority) ==
    IF truthy(priority)
    THEN SelectSeq(tasks, LAMBDA t : t.priority = lower(priority))
    ELSE tasks

filter_tag(tasks, tag) ==
    IF truthy(tag)
    THEN SelectSeq(tasks, LAMBDA t :
            lower(tag) \in {lower(t.tags[i]) : i \in 1..Len(t.tags)})
    ELSE tasks

\* fault: reverse=True is passed for every sort key
sort_tasks_descending(tasks, sort_by) ==
    IF sort_by \in {"created_at", "due_date", "priority"}
    THEN sorted(tasks, sort_by, TRUE)
    ELSE tasks

sort_tasks(tasks, sort_by) ==
    IF sort_by \in {"created_at", "due_date", "priority"}
    THEN IF sort_by = "priority"
         THEN sorted(tasks, "priority", TRUE)
         ELSE sorted(tasks, sort_by, FALSE)
    ELSE tasks

\* the tasks list_tasks has at line 90, when no filter is rejected
list_result(tasks, c) ==
    sort_tasks(
      filter_tag(
        filter_priority(filter_status(tasks, c.status), c.priority),
        c.tag),
      c.sort_by)

\* what list_tasks prints: a rejected filter, "No tasks found", or the table
list_prints(tasks, c) ==
    IF truthy(c.status) /\ lower(c.status) \notin Range(STATUSES)
    THEN <<"invalid_status">>
    ELSE IF truthy(c.priority) /\ lower(c.priority) \notin Range(PRIORITIES)
         THEN <<"invalid_priority">>
         ELSE IF list_result(tasks, c) = <<>>
              THEN <<"no_tasks">>
              ELSE <<"table">>

\* the rows of the table, in order: none unless the table is printed
list_shown(tasks, c) ==
    IF list_prints(tasks, c) = <<"table">> THEN list_result(tasks, c) ELSE <<>>

\* fault: list_tasks saves the list it loaded
list_file_saves(f) == save_tasks(load_tasks(f))

\* the file after list_tasks: it never calls save_tasks
list_file(f) == f

list_tasks(c) ==
    /\ calls < MaxCalls
    /\ file' = list_file(file)
    /\ ret' = None
    /\ out' = load_prints(file) \o list_prints(load_tasks(file), c)
    /\ shown' = list_shown(load_tasks(file), c)
    /\ call' = [op |-> "list", id |-> None, args |-> c]
    /\ prev' = file
    /\ calls' = calls + 1
    /\ UNCHANGED <<over, issued, inv>>

-----------------------------------------------------------------------------
(* The program, one handler call at a time *)

Init ==
    /\ file = Absent
    /\ ret = None
    /\ out = <<>>
    /\ inv = [p \in Procs |-> Idle]
    /\ call = [op |-> "none", id |-> None, args |-> <<>>]
    /\ prev = Absent
    /\ over = Absent
    /\ shown = <<>>
    /\ issued = <<>>
    /\ calls = 0

Add    == \E c \in AddCalls, uuid \in Ids : add_task(c, uuid)
Update == \E task_id \in Ids, c \in UpdateCalls : update_task(task_id, c)
Delete == \E task_id \in Ids : delete_task(task_id)
View   == \E task_id \in Ids : view_task(task_id)
List   == \E c \in ListCalls : list_tasks(c)

Next == Add \/ Update \/ Delete \/ View \/ List

Spec == Init /\ [][Next]_vars

-----------------------------------------------------------------------------
(* save_tasks step by step: a handler call of process p runs up to its     *)
(* save_tasks call (Begin...), open(tasks_file, 'w') truncates the file,   *)
(* json.dump writes the records, and leaving the with block closes it.     *)

\* the handler calls that have loaded and not yet returned
started == Cardinality({p \in Procs : inv[p].pc # "idle"})

Loaded(c, new, r, o) ==
    [pc |-> "loaded", call |-> c, found |-> file, new |-> new,
     ret |-> r, out |-> o]

BeginAdd(p) ==
    \E c \in AddCalls, uuid \in Ids :
        /\ calls + started < MaxCalls
        /\ inv[p].pc = "idle"
        /\ inv' = [inv EXCEPT ![p] =
                    Loaded([op |-> "add", id |-> uuid, args |-> c],
                           add_result(load_tasks(file), c, uuid, now),
                           uuid,
                           load_prints(file) \o add_prints(c.priority)
                               \o <<"added">>)]
        /\ UNCHANGED <<file, ret, out, shown, call, prev, over, issued, calls>>

BeginUpdate(p) ==
    \E task_id \in Ids, c \in SaveUpdateCalls :
        /\ calls + started < MaxCalls
        /\ inv[p].pc = "idle"
        /\ find(load_tasks(file), task_id) # 0
        /\ inv' = [inv EXCEPT ![p] =
                    Loaded([op |-> "update", id |-> task_id, args |-> c],
                           update_result(load_tasks(file), task_id, c, now),
                           TRUE,
                           load_prints(file) \o update_prints(c)
                               \o <<"updated">>)]
        /\ UNCHANGED <<file, ret, out, shown, call, prev, over, issued, calls>>

BeginDelete(p) ==
    \E task_id \in Ids :
        /\ calls + started < MaxCalls
        /\ inv[p].pc = "idle"
        /\ find(load_tasks(file), task_id) # 0
        /\ inv' = [inv EXCEPT ![p] =
                    Loaded([op |-> "delete", id |-> task_id, args |-> <<>>],
                           delete_result(load_tasks(file), task_id),
                           TRUE,
                           load_prints(file) \o <<"deleted">>)]
        /\ UNCHANGED <<file, ret, out, shown, call, prev, over, issued, calls>>

\* with open(tasks_file, 'w') as f: the file exists and is empty
SaveOpen(p) ==
    /\ inv[p].pc = "loaded"
    /\ file' = Partial(<<>>)
    /\ over' = file
    /\ inv' = [inv EXCEPT ![p].pc = "writing"]
    /\ UNCHANGED <<ret, out, shown, call, prev, issued, calls>>

\* json.dump(tasks, f, indent=4): one more record reaches the file
SaveWrite(p) ==
    /\ inv[p].pc = "writing"
    /\ file.kind = "partial"
    /\ Len(file.tasks) < Len(inv[p].new)
    /\ file' = Partial(SubSeq(inv[p].new, 1, Len(file.tasks) + 1))
    /\ UNCHANGED <<ret, out, shown, inv, call, prev, over, issued, calls>>

\* the with block is left: the file is closed, the handler prints and returns
SaveClose(p) ==
    /\ inv[p].pc = "writing"
    /\ file.kind = "partial" => Len(file.tasks) = Len(inv[p].new)
    /\ file' = save_tasks(inv[p].new)
    /\ ret' = inv[p].ret
    /\ out' = inv[p].out
    /\ call' = inv[p].call
    /\ prev' = inv[p].found
    /\ issued' = IF inv[p].call.op = "add"
                 THEN Append(issued, inv[p].ret) ELSE issued
    /\ calls' = calls + 1
    /\ shown' = <<>>
    /\ inv' = [inv EXCEPT ![p] = Idle]
    /\ UNCHANGED over

\* a write raises OSError, or the process is killed: the call does not return
SaveRaise(p) ==
    /\ inv[p].pc = "writing"
    /\ ret' = None
    /\ out' = load_prints(inv[p].found) \o <<"traceback">>
    /\ call' = inv[p].call
    /\ prev' = inv[p].found
    /\ calls' = calls + 1
    /\ shown' = <<>>
    /\ inv' = [inv EXCEPT ![p] = Idle]
    /\ UNCHANGED <<file, over, issued>>

\* the calls that do not reach save_tasks
UpdateMiss ==
    \E task_id \in Ids, c \in SaveUpdateCalls :
        /\ \A p \in Procs : inv[p].pc = "idle"
        /\ find(load_tasks(file), task_id) = 0
        /\ update_task(task_id, c)

DeleteMiss ==
    \E task_id \in Ids :
        /\ \A p \in Procs : inv[p].pc = "idle"
        /\ find(load_tasks(file), task_id) = 0
        /\ delete_task(task_id)

ViewOnly ==
    \E task_id \in Ids :
        /\ \A p \in Procs : inv[p].pc = "idle"
        /\ view_task(task_id)

ListOnly ==
    \E c \in SaveListCalls :
        /\ \A p \in Procs : inv[p].pc = "idle"
        /\ list_tasks(c)

\* one process, its save_tasks observed step by step
NextSave ==
    \/ BeginAdd("p1")
    \/ BeginUpdate("p1")
    \/ BeginDelete("p1")
    \/ SaveOpen("p1")
    \/ SaveWrite("p1")
    \/ SaveClose("p1")
    \/ SaveRaise("p1")
    \/ UpdateMiss
    \/ DeleteMiss
    \/ ViewOnly
    \/ ListOnly

SpecSave == Init /\ [][NextSave]_vars

-----------------------------------------------------------------------------
(* Two processes run the program on one storage file. Nothing locks the    *)
(* file: each handler call loads, computes its list, and saves it later,   *)
(* whatever the other process has saved in between.                        *)

\* fault: save_tasks keeps the records the file holds and the list lacks
overwrite_merging(f, tasks) ==
    save_tasks(SelectSeq(load_tasks(f), LAMBDA t : t \notin Range(tasks))
               \o tasks)

\* save_tasks on the file f as it is now: open(tasks_file, 'w') discards what
\* f holds, json.dump writes the list of the caller
overwrite(f, tasks) == save_tasks(tasks)

\* the save_tasks call of process p and the return of its handler
Save(p) ==
    /\ inv[p].pc = "loaded"
    /\ file' = overwrite(file, inv[p].new)
    /\ over' = file
    /\ ret' = inv[p].ret
    /\ out' = inv[p].out
    /\ call' = inv[p].call
    /\ prev' = inv[p].found
    /\ issued' = IF inv[p].call.op = "add"
                 THEN Append(issued, inv[p].ret) ELSE issued
    /\ calls' = calls + 1
    /\ shown' = <<>>
    /\ inv' = [inv EXCEPT ![p] = Idle]

NextConc ==
    \E p \in Procs :
        \/ BeginAdd(p)
        \/ BeginUpdate(p)
        \/ BeginDelete(p)
        \/ Save(p)

SpecConc == Init /\ [][NextConc]_vars

-----------------------------------------------------------------------------
(* list_tasks as a function of the store and its arguments: the store is   *)
(* any list of up to MaxLen of the tasks below, the call is any of         *)
(* AllListCalls.                                                           *)

\* tasks as add_task and update_task store them. created_at is local time
\* (datetime.now()), which a clock change sets back: the order of the list
\* need not be the order of created_at.
QueryTasks ==
    { [id |-> "1a2b3c4d", title |-> "Buy milk", description |-> "",
       priority |-> "low", status |-> "pending",
       created_at |-> strftime(2), due_date |-> None,
       completed_at |-> None, tags |-> <<"Home", "x">>],
      [id |-> "abc123de", title |-> "X", description |-> "2 litres",
       priority |-> "critical", status |-> "completed",
       created_at |-> strftime(1), due_date |-> "2026-12-31",
       completed_at |-> strftime(3), tags |-> <<"X">>],
      [id |-> "0f0f0f0f", title |-> "X", description |-> "",
       priority |-> "medium", status |-> "pending",
       created_at |-> strftime(2), due_date |-> "",
       completed_at |-> None, tags |-> <<>>],
      [id |-> "9e8d7c6b", title |-> "Call", description |-> "",
       priority |-> "critical", status |-> "in_progress",
       created_at |-> strftime(4), due_date |-> "2026-1-5",
       completed_at |-> None, tags |-> <<"home">>],
      [id |-> "deadbeef", title |-> "Pay", description |-> "",
       priority |-> "high", status |-> "completed",
       created_at |-> strftime(3), due_date |-> "2026-01-01",
       completed_at |-> strftime(5), tags |-> <<"work">>] }

\* the stores: the lists of distinct tasks, in any order
Stores ==
    {t \in UNION {[1..n -> QueryTasks] : n \in 0..MaxLen} :
        \A i, j \in 1..Len(t) : i # j => t[i] # t[j]}

InitQuery ==
    /\ file \in {JsonFile(t) : t \in Stores}
    /\ ret = None
    /\ out = <<>>
    /\ inv = [p \in Procs |-> Idle]
    /\ call = [op |-> "none", id |-> None, args |-> <<>>]
    /\ prev = Absent
    /\ over = Absent
    /\ shown = <<>>
    /\ issued = <<>>
    /\ calls = 0

\* one list_tasks call on the store
Query == \E c \in AllListCalls : calls = 0 /\ list_tasks(c)

SpecQuery == InitQuery /\ [][Query]_vars

-----------------------------------------------------------------------------
(* What the last call found and left *)

before == load_tasks(prev)       \* the collection the last call loaded
after  == load_tasks(file)       \* the collection stored now
at     == find(before, call.id)  \* where the last call found its task, or 0
Found  == at # 0

ValidPriority(x)   == x # None /\ lower(x) \in Range(PRIORITIES)
InvalidPriority(x) == x # None /\ lower(x) \notin Range(PRIORITIES)
ValidStatus(x)     == x # None /\ lower(x) \in Range(STATUSES)
InvalidStatus(x)   == x # None /\ lower(x) \notin Range(STATUSES)

HasId(tasks, id) == \E i \in 1..Len(tasks) : tasks[i].id = id

\* no save_tasks call is under way, and the last call returned
Quiet    == \A p \in Procs : inv[p].pc = "idle"
Returned == "traceback" \notin Range(out)

\* the last call found a file that json.load cannot parse
Malformed == prev.kind = "partial"

\* the task t passes the filters of the list_tasks call c: a filter that is
\* None is left out, every other one must match whatever the case
Matches(t, c) ==
    /\ c.status # None => t.status = lower(c.status)
    /\ c.priority # None => t.priority = lower(c.priority)
    /\ c.tag # None => \E i \in 1..Len(t.tags) : lower(t.tags[i]) = lower(c.tag)

\* the severity rank of a priority
Rank(p) ==
    CASE p = "critical" -> 3
      [] p = "high"     -> 2
      [] p = "medium"   -> 1
      [] p = "low"      -> 0

\* where the task t is in the list the last call loaded
Index(t) == CHOOSE i \in 1..Len(before) : before[i] = t

\* the tasks the last list_tasks call kept, before it sorted them
Filtered ==
    filter_tag(
      filter_priority(filter_status(before, call.args.status),
                      call.args.priority),
      call.args.tag)

\* the string list_tasks compares for this field: "" for None
Key(t, field) == IF t[field] = None THEN "" ELSE t[field]

\* list_tasks printed the message that names an invalid filter
Rejected == out = <<"invalid_status">> \/ out = <<"invalid_priority">>

-----------------------------------------------------------------------------
(* C1: every stored task has completed_at non-null exactly when its status *)
(* is completed, after any sequence of add, update and delete calls.       *)
C1_CompletedAtIffCompleted ==
    \A i \in 1..Len(after) :
        (after[i].completed_at # None) <=> (after[i].status = "completed")

\* a task was completed by an update and carries its timestamp
C1_Witness ==
    /\ call.op = "update" /\ Found
    /\ before[at].status # "completed"
    /\ after[at].status = "completed"
    /\ after[at].completed_at # None

(* C2: the id an add_task call returns differs from the id of every        *)
(* earlier add_task call, so no two stored tasks share an id.              *)
C2_IdsNeverReused ==
    /\ \A i, j \in 1..Len(issued) : i # j => issued[i] # issued[j]
    /\ \A i, j \in 1..Len(after) : i # j => after[i].id # after[j].id


(* C3: save_tasks is atomic for the caller: at every point during and      *)
(* after a save, one that fails part-way included, the storage file holds  *)
(* the complete old collection or the complete new one, never a partial or *)
(* empty intermediate content.                                             *)
C3_SaveIsAtomic ==
    /\ file.kind # "partial"
    /\ \A p \in Procs :
        inv[p].pc = "writing"
            => (file = inv[p].found \/ file = JsonFile(inv[p].new))

(* C4: every stored task's priority is one of PRIORITIES and its status    *)
(* one of STATUSES, whatever priority and status arguments were passed.    *)
C4_EnumsAlwaysValid ==
    \A i \in 1..Len(after) :
        /\ after[i].priority \in {"low", "medium", "high", "critical"}
        /\ after[i].status \in {"pending", "in_progress", "completed", "cancelled"}

\* an update was given an invalid priority and a mixed-case status
C4_Witness ==
    /\ call.op = "update" /\ Found
    /\ call.args.priority = "urgent"
    /\ call.args.status = "In_Progress"
    /\ after[at].status = "in_progress"

(* C5: update_task and delete_task called with an id no stored task has    *)
(* return False and leave the storage file as it was: nothing is written   *)
(* and an absent file stays absent.                                        *)
C5_NotFoundLeavesStorage ==
    (call.op \in {"update", "delete"} /\ ~HasId(before, call.id))
        => (ret = FALSE /\ file = prev)

\* an update with fields given missed its task in a store that holds tasks
C5_Witness ==
    /\ call.op = "update" /\ ~HasId(before, call.id)
    /\ Given(call.args) # {}
    /\ Len(before) > 0

(* C6: when update_task finds the task and is given an invalid priority    *)
(* and/or status, the invalid field keeps its value (completed_at too, for *)
(* an invalid status), every other field given is applied, the result is   *)
(* saved and True is returned.                                             *)
C6_InvalidFieldSkipped ==
    (/\ call.op = "update" /\ Found
     /\ InvalidPriority(call.args.priority) \/ InvalidStatus(call.args.status))
    => LET c == call.args  old == before[at]  new == after[at] IN
       /\ ret = TRUE
       /\ file.kind = "json" /\ Len(after) = Len(before)
       /\ InvalidPriority(c.priority) => new.priority = old.priority
       /\ InvalidStatus(c.status) =>
            new.status = old.status /\ new.completed_at = old.completed_at
       /\ ValidPriority(c.priority) => new.priority = lower(c.priority)
       /\ ValidStatus(c.status) => new.status = lower(c.status)
       /\ c.title # None => new.title = c.title
       /\ c.description # None => new.description = c.description
       /\ c.due_date # None => new.due_date = c.due_date
       /\ c.tags # NoneList => new.tags = c.tags

\* an invalid priority came with a title and a status that were both applied
C6_Witness ==
    /\ call.op = "update" /\ Found /\ ret = TRUE
    /\ InvalidPriority(call.args.priority)
    /\ call.args.status = "completed"
    /\ before[at].status # "completed" /\ after[at].status = "completed"
    /\ call.args.title # None /\ before[at].title # after[at].title

(* C7: update_task with status completed on a task that is not completed   *)
(* sets completed_at to a timestamp; with any other valid status it sets   *)
(* completed_at to None, whether it was set before or not.                 *)
C7_StatusSetsCompletedAt ==
    (call.op = "update" /\ Found /\ ValidStatus(call.args.status))
    => LET s == lower(call.args.status)  old == before[at]  new == after[at] IN
       /\ (s = "completed" /\ old.status # "completed")
            => new.completed_at = strftime(calls)
       /\ s # "completed" => new.completed_at = None

\* a completed task was moved to another status and lost its timestamp
C7_Witness ==
    /\ call.op = "update" /\ Found
    /\ before[at].status = "completed" /\ before[at].completed_at # None
    /\ ValidStatus(call.args.status) /\ after[at].status # "completed"
    /\ after[at].completed_at = None

(* C8: add_task never rejects: it appends exactly one task, pending, with  *)
(* completed_at None, the fields given, and the priority lower-cased or    *)
(* medium when invalid; the tasks stored before are unchanged and in       *)
(* order; the result is saved and the new id returned.                     *)
C8_AddAppendsOneTask ==
    call.op = "add"
    => LET c == call.args  t == after[Len(after)] IN
       /\ file.kind = "json"
       /\ Len(after) = Len(before) + 1
       /\ \A i \in 1..Len(before) : after[i] = before[i]
       /\ t.status = "pending" /\ t.completed_at = None
       /\ t.title = c.title /\ t.description = c.description
       /\ t.due_date = c.due_date
       /\ t.tags = (IF c.tags = NoneList THEN <<>> ELSE c.tags)
       /\ t.priority = (IF InvalidPriority(c.priority) THEN "medium"
                        ELSE lower(c.priority))
       /\ ret = t.id

\* an add with an invalid priority went through on a store holding a task
C8_Witness ==
    /\ call.op = "add" /\ call.args.priority = "urgent"
    /\ Len(before) > 0 /\ Len(after) = Len(before) + 1
    /\ after[Len(after)].priority = "medium"
    /\ "invalid_priority" \in Range(out)

(* C9: delete_task on a store holding a task with the id removes the first *)
(* such task and no other, saves and returns True; afterwards no task with *)
(* that id is found.                                                       *)
C9_DeleteRemovesTask ==
    (call.op = "delete" /\ HasId(before, call.id))
    => /\ ret = TRUE
       /\ file.kind = "json"
       /\ Len(after) = Len(before) - 1
       /\ \A i \in 1..Len(after) :
            after[i] = (IF i < at THEN before[i] ELSE before[i + 1])
       /\ ~view_result(after, call.id)

(* C10: update_task on a task it finds changes only the fields given (None *)
(* keeps the value; an empty string or an empty tag list is applied),      *)
(* never the id or created_at, never another task, never the number or     *)
(* order of the tasks.                                                     *)
C10_UpdateFrame ==
    (call.op = "update" /\ Found)
    => LET c == call.args  old == before[at]  new == after[at] IN
       /\ Len(after) = Len(before)
       /\ \A i \in 1..Len(before) : i # at => after[i] = before[i]
       /\ new.id = old.id /\ new.created_at = old.created_at
       /\ new.title = (IF c.title = None THEN old.title ELSE c.title)
       /\ new.description =
            (IF c.description = None THEN old.description ELSE c.description)
       /\ new.due_date = (IF c.due_date = None THEN old.due_date ELSE c.due_date)
       /\ new.tags = (IF c.tags = NoneList THEN old.tags ELSE c.tags)
       /\ c.priority = None => new.priority = old.priority
       /\ c.status = None =>
            new.status = old.status /\ new.completed_at = old.completed_at

\* only an empty description was given: it replaced a non-empty one, and the
\* other task of the store stayed as it was
C10_Witness ==
    /\ call.op = "update" /\ Found
    /\ Given(call.args) = {"description"} /\ call.args.description = ""
    /\ before[at].description # "" /\ after[at].description = ""
    /\ after[at].due_date # None
    /\ Len(before) = 2

(* C11: when the storage file exists but is malformed, load_tasks reports  *)
(* the corruption, returns an empty list without recovering any record the *)
(* file holds, and does not overwrite the file: after a call that only     *)
(* loads (list_tasks, view_task) the file is what it was.                  *)
C11_LoadOnMalformedFile ==
    (Malformed /\ Quiet /\ call.op \in {"list", "view"})
    => /\ out[1] = "corrupted"
       /\ file = prev
       /\ shown = <<>>
       /\ call.op = "view" => (ret = FALSE /\ out[2] = "not_found")
       /\ (call.op = "list" /\ Filters(call.args) = {}) => out[2] = "no_tasks"

\* view_task asked for the id of a record the malformed file holds, and did
\* not find it
C11_Witness ==
    /\ Malformed /\ Quiet /\ call.op = "view"
    /\ Len(prev.tasks) > 0 /\ call.id = load_str(prev.tasks[1].id)
    /\ ret = FALSE /\ file = prev /\ out[1] = "corrupted"

C13_FiltersConjunctive ==
    (/\ call.op = "list"
     /\ call.args.status # None => ValidStatus(call.args.status)
     /\ call.args.priority # None => ValidPriority(call.args.priority))
    => /\ \A i \in 1..Len(before) :
            before[i] \in Range(shown) <=> Matches(before[i], call.args)
       /\ \A j \in 1..Len(shown) : shown[j] \in Range(before)

(* C14: a list_tasks call whose status or priority filter is not a valid   *)
(* enum value is rejected as a whole: it prints an error and shows no      *)
(* task, whatever the other filters are; that outcome differs from the one *)
(* of a call with valid filters that match no task.                        *)
C14_InvalidFilterRejected ==
    call.op = "list"
    => /\ (InvalidStatus(call.args.status) \/ InvalidPriority(call.args.priority))
            => (Rejected /\ shown = <<>>)
       /\ out = <<"no_tasks">> => ~Rejected

(* C15: sorting by priority shows the tasks by descending severity         *)
(* (critical, high, medium, low) and is stable: tasks of equal priority    *)
(* are shown in the order they have in the store.                          *)
C15_PrioritySortStable ==
    (call.op = "list" /\ call.args.sort_by = "priority")
    => /\ \A i, j \in 1..Len(shown) :
            i < j =>
              /\ Rank(shown[i].priority) >= Rank(shown[j].priority)
              /\ shown[i].priority = shown[j].priority
                    => Index(shown[i]) < Index(shown[j])
       /\ out = <<"table">> =>
            /\ Len(shown) = Len(Filtered)
            /\ Range(shown) = Range(Filtered)

\* the store [low, critical, medium, critical] is shown as the two criticals
\* in their order, then medium, then low
C15_Witness ==
    /\ call.op = "list" /\ call.args.sort_by = "priority"
    /\ Len(before) = 4
    /\ before[1].priority = "low" /\ before[2].priority = "critical"
    /\ before[3].priority = "medium" /\ before[4].priority = "critical"
    /\ shown = <<before[2], before[4], before[3], before[1]>>

(* C16: sorting by created_at or due_date shows the tasks in ascending     *)
(* lexicographic order of the stored string, None counting as the empty    *)
(* string, so a task without due_date comes before every task with a       *)
(* non-empty one; the tasks shown are a permutation of the filtered tasks. *)
C16_DateSortAscending ==
    (call.op = "list" /\ call.args.sort_by \in {"created_at", "due_date"})
    => LET f == call.args.sort_by IN
       /\ \A i, j \in 1..Len(shown) :
            i < j =>
              /\ ~str_lt(Key(shown[j], f), Key(shown[i], f))
              /\ (shown[j][f] = None /\ shown[i][f] # None)
                    => shown[i][f] = ""
       /\ out = <<"table">> =>
            /\ Len(shown) = Len(Filtered)
            /\ Range(shown) = Range(Filtered)

\* sorted by due_date: the task without one, stored last, is shown first,
\* and 2026-1-5 after 2026-01-01
C16_Witness ==
    /\ call.op = "list" /\ call.args.sort_by = "due_date"
    /\ Len(before) = 3 /\ Len(shown) = 3
    /\ before[1].due_date = "2026-1-5" /\ before[2].due_date = "2026-01-01"
    /\ before[3].due_date = None
    /\ shown = <<before[3], before[2], before[1]>>

(* C17: list_tasks and view_task are read-only: for any filters and sort   *)
(* key, valid or invalid, and any id, the storage file after the call is   *)
(* the one before it (same tasks, same values, same order; an absent file  *)
(* stays absent): nothing is saved.                                        *)
C17_ListAndViewReadOnly ==
    call.op \in {"list", "view"}
    => /\ file = prev
       /\ after = before

\* a list_tasks call with an invalid filter left a store of two tasks alone
C17_Witness ==
    /\ call.op = "list" /\ call.args.status = "bogus"
    /\ Len(before) = 2 /\ file = prev
    /\ out = <<"invalid_status">>

(* C18: on a valid store saving the list just loaded is a no-op: the file  *)
(* holds the same JSON content as before and a following load returns the  *)
(* same list. update_task with no field given on a task it finds does      *)
(* exactly that.                                                           *)
C18_SaveLoadRoundTrip ==
    /\ file.kind = "json" =>
        /\ save_tasks(load_tasks(file)) = file
        /\ load_tasks(save_tasks(load_tasks(file))) = load_tasks(file)
    /\ (call.op = "update" /\ ret = TRUE /\ Given(call.args) = {})
        => file = prev

\* an update without fields saved a store whose tasks hold a null, an
\* empty string and a list of tags
C18_Witness ==
    /\ call.op = "update" /\ ret = TRUE /\ Given(call.args) = {}
    /\ prev.kind = "json" /\ file = prev
    /\ Len(after) = 2
    /\ \E i \in 1..2 : after[i].due_date = None /\ after[i].description = ""
    /\ \E i \in 1..2 : after[i].tags = <<"Home", "x">>

(* C19: update_task with status completed on a task that is completed      *)
(* already keeps its completed_at: the time of the first completion, not   *)
(* the time of this call.                                                  *)
C19_CompletedKeepsStamp ==
    (/\ call.op = "update" /\ Found
     /\ ValidStatus(call.args.status) /\ lower(call.args.status) = "completed"
     /\ before[at].status = "completed")
    => /\ after[at].status = "completed"
       /\ after[at].completed_at = before[at].completed_at

\* a task completed at an earlier call was set to completed again
C19_Witness ==
    /\ call.op = "update" /\ Found
    /\ call.args.status = "completed" /\ before[at].status = "completed"
    /\ after[at].completed_at = before[at].completed_at
    /\ after[at].completed_at # None
    /\ after[at].completed_at # strftime(calls)

(* C20: on a malformed storage file add_task goes on without asking: it    *)
(* replaces the content of the file with a list holding only the new task; *)
(* list_tasks, view_task, update_task and delete_task find no task and     *)
(* leave the malformed file as it is.                                      *)
C20_AddReplacesMalformedFile ==
    (Malformed /\ Quiet /\ Returned)
    => /\ call.op = "add" =>
            /\ file.kind = "json"
            /\ Len(after) = 1
            /\ after[1].id = ret /\ after[1].title = call.args.title
            /\ out[1] = "corrupted" /\ out[Len(out)] = "added"
       /\ call.op \in {"list", "view", "update", "delete"} => file = prev
       /\ call.op \in {"view", "update", "delete"} =>
            (ret = FALSE /\ out = <<"corrupted", "not_found">>)

\* add_task found a malformed file holding a record and left a store of one
\* task, its own
C20_Witness ==
    /\ Malformed /\ Quiet /\ Returned /\ call.op = "add"
    /\ Len(prev.tasks) > 0
    /\ file.kind = "json" /\ Len(after) = 1 /\ after[1].id = ret

====
